---------------------------- MODULE Spec2Model ----------------------------
(***************************************************************************)
(* gram2vec: grammar feature vectorization (gram2vec/featurizers.py).      *)
(*                                                                         *)
(* Python values are modelled as follows.                                  *)
(*   - a dict or Counter is a sequence of records [k |-> key, n |-> value] *)
(*     in insertion order (Python dicts iterate in insertion order);       *)
(*   - a list is a sequence; a tuple of two strings is a 2-sequence;       *)
(*   - the result of a call is a record whose field err is "none" when the *)
(*     call returned and the exception's class name when it raised;        *)
(*   - a float is a record [f |-> "fin" | "nan" | "inf", num, den];        *)
(*   - a set is the sequence of its items as the source lists them, and    *)
(*     iterating it yields an order that depends on the process's hash     *)
(*     seed (set_iter).                                                    *)
(* The dependency-tree linearization of treegex/treegex.py is modelled at  *)
(* the end of the module.                                                  *)
(***************************************************************************)
EXTENDS Integers, Sequences, FiniteSets, TLC

VARIABLES
    pc,             \* position of the running call
    hashseed,       \* the hash seed of the Python process (random per process)
    vocab,          \* get_counts: argument vocab
    doc_features,   \* get_counts: argument doc_features
    count_dict,     \* get_counts: the call's result
    doc,            \* the Document handed to a counter function / built by vectorize
    boundaries,     \* count_document_pos_bigrams: local pos_tags_with_boundaries
    replaced,       \* count_document_mixed_bigrams: the list replace_openclass returned
    counter,        \* the Counter a counter function returned
    files,          \* the files under vocab/ (learned vocabulary artifacts)
    toml_config,    \* config.toml, table "Features"
    corpus,         \* the texts of the JSON file at data_path (all_text_docs)
    data_path,      \* GrammarVectorizer.__init__: argument data_path
    logs,           \* the files under logs/ (what feature_logger has appended)
    text,           \* vectorize: argument text
    embedding,      \* the vector the spaCy pipeline attaches to the parsed text
    gv,             \* the GrammarVectorizer: outcome of __init__
    config,         \* vectorize: the list _config() returned (featurizer names)
    idx,            \* vectorize: index of the loop over config
    ret,            \* vectorize: what the last featurizer call returned or raised
    vectors,        \* vectorize: local list vectors
    result,         \* vectorize: the call's result
    constructions,  \* how many GrammarVectorizer objects have been constructed
    calls,          \* how many vectorize calls the instance has begun
    previous,       \* the result of the instance's previous vectorize call
    tree,           \* linearlize_tree: the dependency tree of argument sentence
    stack,          \* linearlize_tree: local stack of parse_dependency_parse
    linear          \* linearlize_tree: local result, then the string returned

vars == <<pc, hashseed, vocab, doc_features, count_dict, doc, boundaries, replaced, counter,
          files, toml_config, corpus, data_path, logs, text, embedding, gv,
          config, idx, ret, vectors, result, constructions, calls, previous,
          tree, stack, linear>>

projVars == <<vocab, doc_features, count_dict>>
countVars == <<doc, boundaries, replaced, counter>>
treeVars == <<tree, stack, linear>>
vecVars == <<files, toml_config, corpus, data_path, logs, text, embedding, gv,
             config, idx, ret, vectors, result, constructions, calls, previous>>

-----------------------------------------------------------------------------
(* Bounds of the model *)

MaxVocabLen == 3        \* longest vocabulary handed to get_counts
MaxFeatures == 2        \* most distinct keys in the multiset handed to get_counts
MaxTokens == 3          \* most tokens of a Document handed to a counter function
MaxEnabled == 2         \* most featurizers config.toml activates
MaxCalls == 2           \* most vectorize calls on one GrammarVectorizer
MaxConstructions == 2   \* most GrammarVectorizer constructions in one run
MaxNodes == 4           \* most tokens of a sentence handed to linearlize_tree

-----------------------------------------------------------------------------
(* Python built-ins *)

None == "None"

Returned(v) == [err |-> "none", val |-> v]
Raised(e) == [err |-> e, val |-> None]

Range(s) == {s[i] : i \in 1..Len(s)}

\* dict: key lookup, `key in d`, d[key], d[key] = v, del d[key]
DictKeys(d) == [i \in 1..Len(d) |-> d[i].k]
DictHas(d, key) == \E i \in 1..Len(d) : d[i].k = key
DictGet(d, key) == d[CHOOSE i \in 1..Len(d) : d[i].k = key].n
DictSet(d, key, v) ==
    IF DictHas(d, key)
    THEN [i \in 1..Len(d) |-> IF d[i].k = key THEN [k |-> key, n |-> v] ELSE d[i]]
    ELSE Append(d, [k |-> key, n |-> v])
DictDel(d, key) == SelectSeq(d, LAMBDA e : e.k # key)

\* collections.Counter(iterable): one entry per distinct element, in
\* first-encounter order, counting its occurrences
RECURSIVE CounterFrom(_, _, _)
CounterFrom(iterable, i, acc) ==
    IF i > Len(iterable) THEN acc
    ELSE LET x == iterable[i]
         IN CounterFrom(iterable, i + 1,
                        DictSet(acc, x, IF DictHas(acc, x) THEN DictGet(acc, x) + 1 ELSE 1))
Counter(iterable) == CounterFrom(iterable, 1, <<>>)

\* nltk.bigrams(sequence): the adjacent pairs, in order
bigrams(s) == [i \in 1..(Len(s) - 1) |-> <<s[i], s[i + 1]>>]

Reverse(s) == [i \in 1..Len(s) |-> s[Len(s) + 1 - i]]

\* Iterating a set of str (or of tuples of str): the order follows the items'
\* hashes, which are salted with the process's hash seed, so it is fixed
\* within a process and differs between processes.  items lists the set as
\* the source writes it; of the orders a process can produce the model keeps
\* two, that one and its reverse.
HashSeeds == {0, 1}
set_iter(items, seed) == IF seed = 0 THEN items ELSE Reverse(items)

\* the duplicate-free sequences over S of length at most n
DistinctSeqs(S, n) ==
    UNION {{s \in [1..m -> S] : \A i, j \in 1..m : i # j => s[i] # s[j]} : m \in 0..n}

-----------------------------------------------------------------------------
(* get_counts (featurizers.py:70-95) *)

\* the doc_features argument: a Counter (what the count_document_* functions
\* return) or a plain list (what the featurizer functions pass)
AsCounter(c) == [type |-> "Counter", items |-> c]
AsList(l) == [type |-> "list", items |-> l]

\* `feature in doc_features`
FeatureIn(feature, df) ==
    IF df.type = "list" THEN feature \in Range(df.items) ELSE DictHas(df.items, feature)

\* vocab_to_zero_dict = {feat:0 for feat in vocab}
RECURSIVE ZeroDict(_, _, _)
ZeroDict(v, i, acc) ==
    IF i > Len(v) THEN acc ELSE ZeroDict(v, i + 1, DictSet(acc, v[i], 0))
vocab_to_zero_dict(v) == ZeroDict(v, 1, <<>>)

\* the loop over vocab_to_zero_dict.keys(); indexing a list with a feature
\* (a str or a tuple) raises TypeError
RECURSIVE get_counts_loop(_, _, _, _)
get_counts_loop(zero, df, i, acc) ==
    IF i > Len(zero) THEN Returned(acc)
    ELSE LET feature == zero[i].k
         IN IF FeatureIn(feature, df)
            THEN IF df.type = "list" THEN Raised("TypeError")
                 ELSE get_counts_loop(zero, df, i + 1,
                                      DictSet(acc, feature, DictGet(df.items, feature)))
            ELSE get_counts_loop(zero, df, i + 1,
                                 DictSet(acc, feature, DictGet(zero, feature)))

\* a plausible slip: only the features found in the document get an entry
get_counts_found_only(v, df) ==
    Returned(SelectSeq([i \in 1..Len(v) |->
                          [k |-> v[i], n |-> IF FeatureIn(v[i], df)
                                             THEN DictGet(df.items, v[i]) ELSE 0]],
                       LAMBDA e : FeatureIn(e.k, df)))

get_counts(v, df) == get_counts_loop(vocab_to_zero_dict(v), df, 1, <<>>)

-----------------------------------------------------------------------------
(* Specification SpecProject: get_counts applied to a vocabulary and a     *)
(* multiset of observed counts                                             *)

FeatureKeys == {"a", "b", "c"}
CountValues == {1, 2, 5}

\* the Counters over FeatureKeys with at most MaxFeatures distinct keys and
\* positive counts
CounterValues ==
    {[i \in 1..Len(ks) |-> [k |-> ks[i], n |-> ns[i]]] :
        ks \in DistinctSeqs(FeatureKeys, MaxFeatures),
        ns \in [1..MaxFeatures -> CountValues]}

\* ret before any featurizer has been called
NoCall == [feat |-> "none", err |-> "none", vector |-> <<>>, doc_features |-> None]

\* previous before any vectorize call has finished
NoResult == [err |-> "nocall", val |-> None]

IdleProject == vocab = None /\ doc_features = None /\ count_dict = None
IdleCount == doc = None /\ boundaries = None /\ replaced = None /\ counter = None
IdleTree == tree = None /\ stack = None /\ linear = None
IdleVectorizer ==
    /\ files = None /\ toml_config = None /\ corpus = None /\ text = None
    /\ data_path = None /\ logs = None
    /\ embedding = None /\ gv = None /\ config = None /\ idx = 0 /\ ret = NoCall
    /\ vectors = None /\ result = None
    /\ constructions = 0 /\ calls = 0 /\ previous = NoResult

InitProject ==
    /\ pc = "call"
    /\ hashseed \in HashSeeds
    /\ vocab \in DistinctSeqs(FeatureKeys, MaxVocabLen)
    /\ doc_features \in {AsCounter(c) : c \in CounterValues}
    /\ count_dict = None
    /\ IdleCount
    /\ IdleVectorizer
    /\ IdleTree

GetCounts ==
    /\ pc = "call"
    /\ count_dict' = get_counts(vocab, doc_features)
    /\ pc' = "returned"
    /\ UNCHANGED <<vocab, doc_features, hashseed, countVars, vecVars, treeVars>>

\* get_counts(vocab, doc_features) with the vocabulary a set, as every
\* featurizer passes it: `for feat in vocab` iterates the set
GetCountsOfSet ==
    /\ pc = "call"
    /\ count_dict' = get_counts(set_iter(vocab, hashseed), doc_features)
    /\ pc' = "returned_set"
    /\ UNCHANGED <<vocab, doc_features, hashseed, countVars, vecVars, treeVars>>

NextProject == GetCounts \/ GetCountsOfSet

SpecProject == InitProject /\ [][NextProject]_vars

\* the count of item x in the multiset M (0 when M has no entry for x)
MultisetCount(M, x) ==
    IF \E j \in 1..Len(M) : M[j].k = x
    THEN LET j == CHOOSE j \in 1..Len(M) : M[j].k = x IN M[j].n
    ELSE 0

\* C1: get_counts(V, M) has one entry per item of V, in V's order; an item
\* absent from M maps to exactly 0 and an item present in M maps to its count
\* in M.
ProjectionIsVocabularyComplete ==
    pc = "returned" =>
        /\ count_dict.err = "none"
        /\ Len(count_dict.val) = Len(vocab)
        /\ \A i \in 1..Len(vocab) :
              /\ count_dict.val[i].k = vocab[i]
              /\ count_dict.val[i].n = MultisetCount(doc_features.items, vocab[i])

\* C1 witness: V = a,b,c and M = {a:5, c:2} projected to 5,0,2
ProjectionWitness ==
    /\ pc = "returned"
    /\ vocab = <<"a", "b", "c">>
    /\ doc_features.items = <<[k |-> "a", n |-> 5], [k |-> "c", n |-> 2]>>
    /\ count_dict.err = "none"
    /\ [i \in 1..Len(count_dict.val) |-> count_dict.val[i].n] = <<5, 0, 2>>

-----------------------------------------------------------------------------
(* Counter functions (featurizers.py:97-156) *)

OPEN_CLASS == <<"ADJ", "ADV", "NOUN", "VERB", "INTJ">>

\* get_sentence_spans: (sent.start, sent.end) of every sentence, token indices
\* counted from 0, end exclusive
get_sentence_spans(d) ==
    [j \in 1..Len(d.sentences) |-> <<d.sentences[j].start, d.sentences[j].end>>]

\* the inner loop `for start, end in spans` for the token at index i
RECURSIVE boundary_marks(_, _, _, _)
boundary_marks(spans, j, i, new_tokens) ==
    IF j > Len(spans) THEN new_tokens
    ELSE boundary_marks(spans, j + 1, i,
                        IF i = spans[j][1] THEN Append(new_tokens, "BOS")
                        ELSE IF i = spans[j][2] THEN Append(new_tokens, "EOS")
                        ELSE new_tokens)

\* the outer loop `for i, item in enumerate(doc.tokens)` and the final
\* new_tokens.append("EOS")
RECURSIVE insert_loop(_, _, _, _)
insert_loop(items, spans, i, new_tokens) ==
    IF i >= Len(items) THEN Append(new_tokens, "EOS")
    ELSE insert_loop(items, spans, i + 1,
                     Append(boundary_marks(spans, 1, i, new_tokens), items[i + 1]))

insert_pos_sentence_boundaries(d) ==
    insert_loop(d.tokens, get_sentence_spans(d), 0, <<>>)

\* the loop of replace_openclass over range(len(tokens))
RECURSIVE replace_loop(_, _, _)
replace_loop(tokens, pos, i) ==
    IF i > Len(tokens) THEN tokens
    ELSE replace_loop(IF pos[i] \in Range(OPEN_CLASS)
                      THEN [tokens EXCEPT ![i] = pos[i]] ELSE tokens,
                      pos, i + 1)

\* a plausible slip: the deepcopy is left out, so the loop writes into the
\* caller's list
replace_openclass_in_place(tokens, pos) ==
    [val |-> replace_loop(tokens, pos, 1), arg |-> replace_loop(tokens, pos, 1)]

\* replace_openclass: val is the list returned, arg is what the caller's list
\* holds after the call (the loop works on a deepcopy)
replace_openclass(tokens, pos) ==
    [val |-> replace_loop(tokens, pos, 1), arg |-> tokens]

count_document_pos_unigrams(d) == Counter(d.pos_tags)

\* a plausible slip: the artificial bigram is not removed
count_document_pos_bigrams_keep_all(d) ==
    Counter(bigrams(insert_pos_sentence_boundaries(d)))

\* `del counter[("EOS","BOS")]`: Counter.__delitem__ does not raise on a
\* missing key
count_document_pos_bigrams(d) ==
    DictDel(Counter(bigrams(insert_pos_sentence_boundaries(d))), <<"EOS", "BOS">>)

\* a bare `return`
count_document_punctuation(d) == None

count_document_mixed_bigrams(d) ==
    Counter(bigrams(replace_openclass(d.tokens, d.pos_tags).val))

-----------------------------------------------------------------------------
(* Specification SpecCount: the counter functions applied to a Document    *)

TokenTexts == {"I", "run", "."}
PosTags == {"PRON", "VERB", "INTJ"}

\* the sentence lists that cut n tokens into contiguous, non-empty sentences
\* covering all of them
RECURSIVE SpansFrom(_, _, _)
SpansFrom(cuts, from, n) ==
    IF from >= n THEN <<>>
    ELSE LET to == IF \E c \in cuts : c > from
                   THEN CHOOSE c \in cuts : c > from /\ \A e \in cuts : e > from => c <= e
                   ELSE n
         IN <<[start |-> from, end |-> to]>> \o SpansFrom(cuts, to, n)
Segmentations(n) == {SpansFrom(cuts, 0, n) : cuts \in SUBSET (1..(n - 1))}

\* a Document with the given tokens, POS tags and sentences
Document(toks, pos, sents) ==
    [raw_text |-> toks, tokens |-> toks, pos_tags |-> pos,
     dep_labels |-> [i \in 1..Len(toks) |-> "dep"], sentences |-> sents]

InitCount ==
    /\ pc = "call"
    /\ hashseed \in HashSeeds
    /\ \E n \in 0..MaxTokens :
          \E toks \in [1..n -> TokenTexts], pos \in [1..n -> PosTags],
             sents \in Segmentations(n) :
                doc = Document(toks, pos, sents)
    /\ boundaries = None /\ replaced = None /\ counter = None
    /\ IdleProject
    /\ IdleVectorizer
    /\ IdleTree

CountPosUnigrams ==
    /\ pc = "call"
    /\ counter' = count_document_pos_unigrams(doc)
    /\ pc' = "pos_unigrams_returned"
    /\ UNCHANGED <<doc, boundaries, replaced, projVars, hashseed, treeVars, vecVars>>

CountPosBigrams ==
    /\ pc = "call"
    /\ boundaries' = insert_pos_sentence_boundaries(doc)
    /\ counter' = count_document_pos_bigrams(doc)
    /\ pc' = "pos_bigrams_returned"
    /\ UNCHANGED <<doc, replaced, projVars, hashseed, treeVars, vecVars>>

CountPunctuation ==
    /\ pc = "call"
    /\ counter' = count_document_punctuation(doc)
    /\ pc' = "punctuation_returned"
    /\ UNCHANGED <<doc, boundaries, replaced, projVars, hashseed, treeVars, vecVars>>

CountMixedBigrams ==
    /\ pc = "call"
    /\ LET r == replace_openclass(doc.tokens, doc.pos_tags)
       IN /\ replaced' = r.val
          /\ doc' = [doc EXCEPT !.tokens = r.arg]
    /\ counter' = count_document_mixed_bigrams(doc)
    /\ pc' = "mixed_bigrams_returned"
    /\ UNCHANGED <<boundaries, projVars, hashseed, treeVars, vecVars>>

NextCount ==
    \/ CountPosUnigrams
    \/ CountPosBigrams
    \/ CountPunctuation
    \/ CountMixedBigrams

SpecCount == InitCount /\ [][NextCount]_vars

\* C3: the multiset count_document_pos_bigrams returns has no entry for the
\* pair (EOS, BOS), whatever the number of sentences.
NoSentenceBoundaryBigram ==
    pc = "pos_bigrams_returned" => ~ DictHas(counter, <<"EOS", "BOS">>)

\* C3 witness: a document of two or more sentences whose marked sequence has
\* EOS directly followed by BOS has been counted
BoundaryBigramWitness ==
    /\ pc = "pos_bigrams_returned"
    /\ Len(doc.sentences) >= 2
    /\ \E i \in 1..(Len(boundaries) - 1) :
          boundaries[i] = "EOS" /\ boundaries[i + 1] = "BOS"
    /\ Len(counter) > 0

\* the POS-tag sequence of the sentences j.. of d, each between BOS and EOS
RECURSIVE MarkedPosTags(_, _)
MarkedPosTags(d, j) ==
    IF j > Len(d.sentences) THEN <<>>
    ELSE <<"BOS">>
         \o SubSeq(d.pos_tags, d.sentences[j].start + 1, d.sentences[j].end)
         \o <<"EOS">>
         \o MarkedPosTags(d, j + 1)

\* C4: POS bigrams are counted from the POS-tag sequence with BOS before the
\* first tag and EOS after the last tag of each sentence: the multiset returned
\* is that of the adjacent pairs of this sequence, (EOS, BOS) removed.
BigramsCountedFromMarkedPosTags ==
    pc = "pos_bigrams_returned" =>
        counter = DictDel(Counter(bigrams(MarkedPosTags(doc, 1))), <<"EOS", "BOS">>)

\* the token sequence with every open-class token replaced by its POS tag
OpenClassReplaced(d) ==
    [i \in 1..Len(d.tokens) |->
        IF d.pos_tags[i] \in {"ADJ", "ADV", "NOUN", "VERB", "INTJ"}
        THEN d.pos_tags[i] ELSE d.tokens[i]]

\* how often the pair p occurs as two adjacent items of s
AdjacentCount(s, p) == Cardinality({i \in 1..(Len(s) - 1) : <<s[i], s[i + 1]>> = p})

MixedBigramsState ==
    pc = "mixed_bigrams_returned" =>
        /\ Len(replaced) = Len(doc.tokens)
        /\ replaced = OpenClassReplaced(doc)
        /\ \A i \in 1..Len(counter) :
              /\ counter[i].n = AdjacentCount(replaced, counter[i].k)
              /\ \A j \in 1..Len(counter) : counter[j].k = counter[i].k => j = i
        /\ \A i \in 1..(Len(replaced) - 1) :
              DictHas(counter, <<replaced[i], replaced[i + 1]>>)

\* C5: count_document_mixed_bigrams returns the multiset of adjacent pairs of
\* the token sequence with open-class tokens replaced by their POS tag; that
\* sequence is as long as the token sequence, and the call leaves the
\* document's own token list as it was.
MixedBigramsOfReplacedTokens ==
    /\ [] MixedBigramsState
    /\ [][pc' = "mixed_bigrams_returned" => doc'.tokens = doc.tokens]_vars

\* C5 witness: a document with an open-class and a closed-class token, the
\* open-class one replaced, has been counted
MixedBigramsWitness ==
    /\ pc = "mixed_bigrams_returned"
    /\ Len(doc.tokens) = 3
    /\ doc.pos_tags[1] = "PRON" /\ doc.pos_tags[2] = "VERB"
    /\ replaced[1] = doc.tokens[1] /\ replaced[2] = "VERB"
    /\ doc.tokens[2] = "run"
    /\ Len(counter) = 2

-----------------------------------------------------------------------------
(* The spaCy pipeline, demoji and numpy as the code uses them              *)

\* A text is a sequence of pieces: words, punctuation marks and emoji.  The
\* emoji U+1F602 is written "U+1F602".
EmojiPieces == {"U+1F602", "U+1F525"}

\* demoji.replace(text, ""): the text without its emoji
demojify_text(t) == SelectSeq(t, LAMBDA piece : piece \notin EmojiPieces)

\* demoji.findall_list(text, desc=False): the emoji of the text, in order
findall_list(t) == SelectSeq(t, LAMBDA piece : piece \in EmojiPieces)

\* the tagger and parser: the POS tag and dependency label of a token
Lexicon(piece) ==
    CASE piece = "Hi" -> [pos_ |-> "INTJ", dep_ |-> "intj"]
      [] piece = "world" -> [pos_ |-> "NOUN", dep_ |-> "ROOT"]
      [] piece = "I" -> [pos_ |-> "PRON", dep_ |-> "nsubj"]
      [] piece = "run" -> [pos_ |-> "VERB", dep_ |-> "ROOT"]
      [] OTHER -> [pos_ |-> "PUNCT", dep_ |-> "punct"]

\* the characters of a token's text (iterating a str)
Characters(s) ==
    CASE s = "Hi" -> <<"H", "i">>
      [] s = "world" -> <<"w", "o", "r", "l", "d">>
      [] s = "run" -> <<"r", "u", "n">>
      [] OTHER -> <<s>>
py_len(s) == Len(Characters(s))

\* the sentence segmenter: a sentence ends after a run of final punctuation
SentenceFinal == {".", "!", "?"}
SentenceCuts(t) ==
    {i \in 1..(Len(t) - 1) : t[i] \in SentenceFinal /\ t[i + 1] \notin SentenceFinal}

\* nlp(text): a spaCy Doc.  iter is what `for token in doc` yields, sents
\* what doc.sents yields, vector is doc.vector
nlp(t, vec) ==
    [text |-> t,
     iter |-> [i \in 1..Len(t) |->
                  [text |-> t[i], pos_ |-> Lexicon(t[i]).pos_, dep_ |-> Lexicon(t[i]).dep_]],
     sents |-> SpansFrom(SentenceCuts(t), 0, Len(t)),
     vector |-> vec]

\* `for token in document`: a spaCy Doc is iterable, the Document dataclass
\* defines no __iter__
PyIter(document) ==
    IF "iter" \in DOMAIN document THEN Returned(document.iter) ELSE Raised("TypeError")

\* `document.text`: the Document dataclass has raw_text, no attribute text
PyText(document) ==
    IF "text" \in DOMAIN document THEN Returned(document.text)
    ELSE Raised("AttributeError")

\* floats
Fin(n) == [f |-> "fin", num |-> n, den |-> 1]
NaN == [f |-> "nan", num |-> 0, den |-> 1]
Inf == [f |-> "inf", num |-> 0, den |-> 1]
StrItem == [f |-> "str", num |-> 0, den |-> 1]

\* np.array(counts) for a list of ints
np_array(counts) == [i \in 1..Len(counts) |-> Fin(counts[i])]

\* array / n: numpy divides by zero without raising (0/0 is nan, x/0 is inf)
np_divide(arr, n) ==
    [i \in 1..Len(arr) |->
        IF n # 0 THEN [f |-> "fin", num |-> arr[i].num, den |-> n]
        ELSE IF arr[i].num = 0 THEN NaN ELSE Inf]

\* np.isnan(vector).any(); isnan is not defined for an array of str
isnan_any(vector) ==
    IF \E i \in 1..Len(vector) : vector[i].f = "str" THEN Raised("TypeError")
    ELSE Returned(\E i \in 1..Len(vector) : vector[i].f = "nan")

\* np.concatenate(vectors): needs at least one array
RECURSIVE Flatten(_)
Flatten(vs) == IF Len(vs) = 0 THEN <<>> ELSE Head(vs) \o Flatten(Tail(vs))
np_concatenate(vs) == IF Len(vs) = 0 THEN Raised("ValueError") ELSE Returned(Flatten(vs))

-----------------------------------------------------------------------------
(* make_document (featurizers.py:55-68) *)

make_document(t, vec) ==
    LET raw_text == t
        d == nlp(demojify_text(t), vec)
    IN [raw_text |-> raw_text,
        doc |-> d,
        tokens |-> [i \in 1..Len(d.iter) |-> d.iter[i].text],
        pos_tags |-> [i \in 1..Len(d.iter) |-> d.iter[i].pos_],
        dep_labels |-> [i \in 1..Len(d.iter) |-> d.iter[i].dep_],
        sentences |-> d.sents]

-----------------------------------------------------------------------------
(* Featurizers (featurizers.py:162-283).  A Python set literal is written  *)
(* as the sequence of its items in the order of the literal; set_iter      *)
(* gives the order in which the process iterates it.  Characters that are  *)
(* not letters, digits or plain punctuation are written as code points.    *)

tags == <<"ADJ", "ADP", "ADV", "AUX", "CCONJ", "DET", "INTJ", "NOUN", "NUM", "PART",
          "PRON", "PROPN", "PUNCT", "SCONJ", "SYM", "VERB", "X", "SPACE">>

punc_marks == <<".", ",", ":", ";", "U+0027", "U+0022", "?", "!",
                "U+0060", "*", "&", "_", "-", "%",
                "(", ")", "U+2013", "U+2018", "U+2019">>

letters_vocab ==
    <<"a", "b", "c", "d", "e", "f", "g", "h", "i", "j", "k", "l", "m", "n", "o", "p",
      "q", "r", "s", "t", "u", "v", "w", "x", "y", "z",
      "A", "B", "C", "D", "E", "F", "G", "H", "I", "J", "K", "L", "M", "N", "O", "P",
      "Q", "R", "S", "T", "U", "V", "W", "X", "Y", "Z",
      "U+00E0", "U+00E8", "U+00EC", "U+00F2", "U+00F9", "U+00E1", "U+00E9", "U+00ED",
      "U+00F3", "U+00FA", "U+00FD">>

emoji_vocab == <<"U+1F605", "U+1F602", "U+1F60A", "U+2764", "U+1F62D", "U+1F44D",
                 "U+1F44C", "U+1F60D", "U+1F495", "U+1F970">>

labels == <<"ROOT", "acl", "acomp", "advcl", "advmod", "agent", "amod", "appos", "attr",
            "aux", "auxpass", "case", "cc", "ccomp", "compound", "conj", "csubj",
            "csubjpass", "dative", "dep", "det", "dobj", "expl", "intj", "mark", "meta",
            "neg", "nmod", "npadvmod", "nsubj", "nsubjpass", "nummod", "oprd",
            "parataxis", "pcomp", "pobj", "poss", "preconj", "predet", "prep", "prt",
            "punct", "quantmod", "relcl", "xcomp">>

\* vocab/function_words.txt, one word per line
function_words == <<"I", "the", "of", "and">>

\* `counts, doc_features = get_counts(vocab, items)`: get_counts returns a
\* dict, which the assignment unpacks by iteration into two names: ValueError
\* unless the dict has exactly two keys; counts is then its first key and
\* doc_features its second
unpack_counts(gc) ==
    IF gc.err # "none" THEN gc
    ELSE IF Len(gc.val) # 2 THEN Raised("ValueError")
    ELSE Returned([counts |-> gc.val[1].k, doc_features |-> gc.val[2].k])

\* `result = np.array(counts); assert len(vocab) == len(counts);
\* return result, doc_features` with counts bound to a str
project_counts(v, items) ==
    LET un == unpack_counts(get_counts(set_iter(v, hashseed), AsList(items)))
    IN IF un.err # "none" THEN un
       ELSE IF Len(v) # py_len(un.val.counts) THEN Raised("AssertionError")
       ELSE Returned([vector |-> <<StrItem>>, doc_features |-> un.val.doc_features])

\* every character c of every token with c in v
RECURSIVE CharsIn(_, _, _)
CharsIn(toks, i, v) ==
    IF i > Len(toks) THEN <<>>
    ELSE SelectSeq(Characters(toks[i].text), LAMBDA c : c \in Range(v))
         \o CharsIn(toks, i + 1, v)

pos_unigrams(document) ==
    LET it == PyIter(document)
    IN IF it.err # "none" THEN it
       ELSE project_counts(tags, [i \in 1..Len(it.val) |-> it.val[i].pos_])

\* get_pos_bigrams and get_mixed_bigrams are defined and imported nowhere
get_pos_bigrams(d) == Raised("NameError")
get_mixed_bigrams(d) == Raised("NameError")

\* utils.load_vocab("vocab/pan_pos_bigrams_vocab.pkl")
load_vocab(fs, path) ==
    IF path \in DOMAIN fs THEN Returned(fs[path]) ELSE Raised("FileNotFoundError")

pos_bigrams(document, fs) ==
    LET v == load_vocab(fs, "vocab/pan_pos_bigrams_vocab.pkl")
    IN IF v.err # "none" THEN v ELSE get_pos_bigrams(document)

func_words(document) ==
    LET it == PyIter(document)
    IN IF it.err # "none" THEN it
       ELSE project_counts(function_words,
                           SelectSeq([i \in 1..Len(it.val) |-> it.val[i].text],
                                     LAMBDA w : w \in Range(function_words)))

punc(document) ==
    LET it == PyIter(document)
    IN IF it.err # "none" THEN it
       ELSE project_counts(punc_marks, CharsIn(it.val, 1, punc_marks))

letters(document) ==
    LET it == PyIter(document)
    IN IF it.err # "none" THEN it
       ELSE project_counts(letters_vocab, CharsIn(it.val, 1, letters_vocab))

\* no assert in this one: the pair is returned whatever counts is
common_emojis(document) ==
    LET t == PyText(document)
    IN IF t.err # "none" THEN t
       ELSE LET un == unpack_counts(
                        get_counts(set_iter(emoji_vocab, hashseed),
                                   AsList(SelectSeq(findall_list(t.val),
                                                    LAMBDA e : e \in Range(emoji_vocab)))))
            IN IF un.err # "none" THEN un
               ELSE Returned([vector |-> <<StrItem>>,
                              doc_features |-> un.val.doc_features])

doc_vector(document) ==
    Returned([vector |-> document.doc.vector, doc_features |-> None])

\* what dep_labels would compute with its plumbing repaired and the division
\* left as it is: the counts of the Document's labels over len(labels kept)
dep_labels_unguarded(document) ==
    LET gc == get_counts(set_iter(labels, hashseed),
                         AsCounter(Counter(document.dep_labels)))
    IN Returned([vector |-> np_divide(np_array([i \in 1..Len(gc.val) |-> gc.val[i].n]),
                                      Len(document.dep_labels)),
                 doc_features |-> gc.val])

\* `np.array(counts) / len(document_dep_labels)` with counts bound to a str:
\* numpy has no division for a str array
dep_labels(document) ==
    LET it == PyIter(document)
    IN IF it.err # "none" THEN it
       ELSE LET un == unpack_counts(
                        get_counts(set_iter(labels, hashseed),
                                   AsList([i \in 1..Len(it.val) |-> it.val[i].dep_])))
            IN IF un.err # "none" THEN un ELSE Raised("TypeError")

\* line 309 rebinds the name mixed_bigrams to a CountBasedFeaturizer, which
\* defines no __call__: the featurizers dict holds that object
mixed_bigrams(document) == Raised("TypeError")

-----------------------------------------------------------------------------
(* GrammarVectorizer (featurizers.py:333-415) *)

\* self.featurizers, in the order of the dict literal
featurizers == <<"pos_unigrams", "pos_bigrams", "func_words", "punc", "letters",
                 "common_emojis", "doc_vector", "dep_labels", "mixed_bigrams">>

\* feat(doc) for the featurizer registered under name
apply_featurizer(name, document, fs) ==
    CASE name = "pos_unigrams" -> pos_unigrams(document)
      [] name = "pos_bigrams" -> pos_bigrams(document, fs)
      [] name = "func_words" -> func_words(document)
      [] name = "punc" -> punc(document)
      [] name = "letters" -> letters(document)
      [] name = "common_emojis" -> common_emojis(document)
      [] name = "doc_vector" -> doc_vector(document)
      [] name = "dep_labels" -> dep_labels(document)
      [] name = "mixed_bigrams" -> mixed_bigrams(document)

\* a plausible slip: a featurizer config.toml does not name is left out
\* without an error
RECURSIVE config_skip_missing(_, _, _)
config_skip_missing(toml, i, acc) ==
    IF i > Len(featurizers) THEN Returned(acc)
    ELSE config_skip_missing(toml, i + 1,
                             IF DictHas(toml, featurizers[i])
                                /\ DictGet(toml, featurizers[i]) = 1
                             THEN Append(acc, featurizers[i]) ELSE acc)

\* _config: the loop over self.featurizers.items(); toml_config[name] raises
\* KeyError for a name the table lacks
RECURSIVE config_loop(_, _, _)
config_loop(toml, i, acc) ==
    IF i > Len(featurizers) THEN Returned(acc)
    ELSE IF ~ DictHas(toml, featurizers[i]) THEN Raised("KeyError")
    ELSE config_loop(toml, i + 1,
                     IF DictGet(toml, featurizers[i]) = 1
                     THEN Append(acc, featurizers[i]) ELSE acc)

\* Counter + Counter: the left operand's keys first, then the right one's new
\* keys; only positive sums are kept
CounterAdd(a, b) ==
    SelectSeq([i \in 1..Len(a) |->
                 [k |-> a[i].k,
                  n |-> a[i].n + (IF DictHas(b, a[i].k) THEN DictGet(b, a[i].k) ELSE 0)]],
              LAMBDA e : e.n > 0)
    \o SelectSeq(b, LAMBDA e : ~ DictHas(a, e.k) /\ e.n > 0)

\* sum(counter_list, Counter())
RECURSIVE CounterSum(_, _, _)
CounterSum(counter_list, i, acc) ==
    IF i > Len(counter_list) THEN acc
    ELSE CounterSum(counter_list, i + 1, CounterAdd(acc, counter_list[i]))

\* Counter.most_common(n): the n entries of highest count, equal counts in
\* insertion order
RECURSIVE most_common(_, _)
most_common(c, n) ==
    IF n = 0 \/ Len(c) = 0 THEN <<>>
    ELSE LET best == CHOOSE i \in 1..Len(c) :
                        /\ \A j \in 1..Len(c) : c[j].n <= c[i].n
                        /\ \A j \in 1..(i - 1) : c[j].n < c[i].n
         IN <<c[best]>>
            \o most_common([j \in 1..(Len(c) - 1) |-> IF j < best THEN c[j] ELSE c[j + 1]],
                           n - 1)

MostCommonK == 50

\* dataset = "pan" if "pan" in data_path else "mud"
dataset_of(path) == IF path = "data/pan/train.json" THEN "pan" ELSE "mud"

\* f"vocab/{dataset}_{feature}_vocab.pkl"
out_path(dataset, feature) ==
    CASE dataset = "pan" /\ feature = "pos_bigrams" -> "vocab/pan_pos_bigrams_vocab.pkl"
      [] dataset = "pan" /\ feature = "mixed_bigrams" -> "vocab/pan_mixed_bigrams_vocab.pkl"
      [] dataset = "mud" /\ feature = "pos_bigrams" -> "vocab/mud_pos_bigrams_vocab.pkl"
      [] dataset = "mud" /\ feature = "mixed_bigrams" -> "vocab/mud_mixed_bigrams_vocab.pkl"

\* utils.save_pkl(content, path)
save_pkl(fs, path, content) ==
    [q \in DOMAIN fs \cup {path} |-> IF q = path THEN content ELSE fs[q]]

\* the loop `for text in all_text_docs` of _generate_vocab
RECURSIVE mine_docs(_, _, _)
mine_docs(docs, i, counters) ==
    IF i > Len(docs) THEN Returned(counters)
    ELSE LET d == nlp(docs[i], <<>>)
             pos_counts == get_pos_bigrams(d)
             mixed == get_mixed_bigrams(d)
         IN IF pos_counts.err # "none" THEN pos_counts
            ELSE IF mixed.err # "none" THEN mixed
            ELSE mine_docs(docs, i + 1,
                           [pos_bigrams |-> Append(counters.pos_bigrams, pos_counts.val),
                            mixed_bigrams |-> Append(counters.mixed_bigrams, mixed.val)])

\* a plausible slip: every construction mines, whether or not the artifact
\* exists
RECURSIVE generate_loop_always(_, _, _, _, _)
generate_loop_always(features, j, dataset, docs, st) ==
    IF j > Len(features) THEN st
    ELSE LET path == out_path(dataset, features[j])
             mined == mine_docs(docs, 1, st.counters)
         IN IF mined.err # "none" THEN [st EXCEPT !.err = mined.err]
            ELSE LET common == most_common(
                                 CounterSum(mined.val[features[j]], 1, <<>>),
                                 MostCommonK)
                 IN generate_loop_always(features, j + 1, dataset, docs,
                                         [err |-> "none",
                                          counters |-> mined.val,
                                          files |-> save_pkl(st.files, path,
                                                             Range(DictKeys(common)))])

\* the loop `for feature, counter_list in counters.items()` of _generate_vocab
RECURSIVE generate_loop(_, _, _, _, _)
generate_loop(features, j, dataset, docs, st) ==
    IF j > Len(features) THEN st
    ELSE LET path == out_path(dataset, features[j])
         IN IF path \in DOMAIN st.files
            THEN generate_loop(features, j + 1, dataset, docs, st)
            ELSE LET mined == mine_docs(docs, 1, st.counters)
                 IN IF mined.err # "none" THEN [st EXCEPT !.err = mined.err]
                    ELSE LET common == most_common(
                                         CounterSum(mined.val[features[j]], 1, <<>>),
                                         MostCommonK)
                         IN generate_loop(features, j + 1, dataset, docs,
                                          [err |-> "none",
                                           counters |-> mined.val,
                                           files |-> save_pkl(st.files, path,
                                                              Range(DictKeys(common)))])

\* _generate_vocab(data_path): err and the files under vocab/ afterwards
generate_vocab(path, docs, fs) ==
    generate_loop(<<"pos_bigrams", "mixed_bigrams">>, 1, dataset_of(path), docs,
                  [err |-> "none",
                   counters |-> [pos_bigrams |-> <<>>, mixed_bigrams |-> <<>>],
                   files |-> fs])

\* a plausible slip: the sub-vector is appended unchecked
assert_nothing(vector) == Returned(FALSE)

\* `assert not np.isnan(vector).any()`
assert_not_nan(vector) ==
    LET nan == isnan_any(vector)
    IN IF nan.err # "none" THEN nan
       ELSE IF nan.val THEN Raised("AssertionError") ELSE Returned(FALSE)

\* a plausible slip: the log file is opened with "w"
feature_logger_truncate(lg, filename, writable) == DictSet(lg, filename, <<writable>>)

\* feature_logger(filename, writable): append to logs/<filename>.log
feature_logger(lg, filename, writable) ==
    IF DictHas(lg, filename)
    THEN DictSet(lg, filename, Append(DictGet(lg, filename), writable))
    ELSE DictSet(lg, filename, <<writable>>)

-----------------------------------------------------------------------------
(* Specification Spec: a GrammarVectorizer is constructed and vectorizes a *)
(* text                                                                    *)

DataPaths == {"data/pan/train.json", "data/mud/train.json"}

Texts == {<<>>,
          <<"Hi", ",", "world", "!", "!">>,
          <<"I", "run", ".", "U+1F602">>}

\* what the pipeline may attach to a text as doc.vector
Embeddings == {<<Fin(1), Fin(0)>>, <<NaN, Fin(0)>>, <<Fin(1), Inf>>}

\* a learned vocabulary as _generate_vocab pickles it: a set of bigrams
LearnedVocab == {<<"BOS", "PRON">>, <<"PRON", "VERB">>}

VocabPaths == {out_path(d, f) : d \in {"pan", "mud"}, f \in {"pos_bigrams", "mixed_bigrams"}}
FileSystems ==
    {[q \in ps |-> LearnedVocab] :
        ps \in {{}, VocabPaths,
                {out_path("pan", "pos_bigrams")}, {out_path("pan", "mixed_bigrams")},
                {out_path("pan", "pos_bigrams"), out_path("pan", "mixed_bigrams")},
                {out_path("mud", "pos_bigrams"), out_path("mud", "mixed_bigrams")}}}

Corpora == {<<>>, <<<<"I", "run", ".">>>>}

\* config.toml: a table naming the featurizers in order names, those of
\* enabled set to 1 and the others to 0
ConfigTable(names, enabled) ==
    [i \in 1..Len(names) |-> [k |-> names[i], n |-> IF names[i] \in enabled THEN 1 ELSE 0]]
Without(s, x) == SelectSeq(s, LAMBDA y : y # x)
UnknownName == "sentence_length"

Configs ==
    LET few == {e \in SUBSET Range(featurizers) : Cardinality(e) <= MaxEnabled}
    IN {ConfigTable(featurizers, e) : e \in few}
       \cup {ConfigTable(Reverse(featurizers), e) : e \in few}
       \cup {ConfigTable(Append(featurizers, UnknownName), e \cup {UnknownName}) : e \in few}
       \cup {ConfigTable(Without(featurizers, x), {y}) :
                x \in Range(featurizers), y \in Range(featurizers)}

Init ==
    /\ pc = "new"
    /\ hashseed \in HashSeeds
    /\ files \in FileSystems
    /\ toml_config \in Configs
    /\ corpus = None
    /\ logs = <<>>
    /\ data_path = None /\ text = None /\ embedding = None /\ gv = None
    /\ config = None /\ idx = 0 /\ ret = NoCall /\ vectors = <<>> /\ result = None
    /\ constructions = 0 /\ calls = 0 /\ previous = NoResult
    /\ doc = None /\ boundaries = None /\ replaced = None /\ counter = None
    /\ IdleProject
    /\ IdleTree

\* GrammarVectorizer(data_path, logging), docs being the texts of the JSON
\* file at data_path.  gv keeps, beside the outcome, the local dict counters
\* of _generate_vocab as the call left it.
GrammarVectorizer(path, logging, docs) ==
    /\ data_path' = path
    /\ corpus' = docs
    /\ constructions' = constructions + 1
    /\ calls' = 0
    /\ previous' = NoResult
    /\ LET g == generate_vocab(path, docs, files)
       IN /\ files' = g.files
          /\ gv' = [err |-> g.err, logging |-> logging, counters |-> g.counters]
          /\ pc' = IF g.err = "none" THEN "constructed" ELSE "construct_raised"
    /\ UNCHANGED <<toml_config, logs, text, embedding, config, idx, ret,
                   vectors, result, projVars, hashseed, treeVars, countVars>>

\* the first construction of a run
Construct(path, logging, docs) ==
    /\ pc = "new"
    /\ GrammarVectorizer(path, logging, docs)

\* a later construction, once the running call (if any) has finished
ConstructAgain(path, logging, docs) ==
    /\ pc \in {"constructed", "construct_raised", "returned", "raised"}
    /\ constructions < MaxConstructions
    /\ GrammarVectorizer(path, logging, docs)

\* a plausible slip: the list of sub-vectors outlives the call
vectors_kept(stale) == stale

\* `vectors = []`: a list local to the call, whatever an earlier call left
vectors_at_entry(stale) == <<>>

\* vectorize(text) up to the first iteration: make_document, then _config().
\* The first call of an instance takes any text; a later call is made with
\* the text of the first one, which the pipeline parses to the same Doc.
VectorizeBegin(t, vec) ==
    /\ \/ pc = "constructed"
       \/ /\ pc \in {"returned", "raised"}
          /\ calls < MaxCalls
          /\ t = text /\ vec = embedding
    /\ calls' = calls + 1
    /\ previous' = IF pc = "constructed" THEN NoResult ELSE result
    /\ text' = t
    /\ embedding' = vec
    /\ doc' = make_document(t, vec)
    /\ vectors' = vectors_at_entry(vectors)
    /\ ret' = NoCall
    /\ LET cfg == config_loop(toml_config, 1, <<>>)
       IN IF cfg.err # "none"
          THEN /\ result' = Raised(cfg.err)
               /\ pc' = "raised"
               /\ UNCHANGED <<config, idx>>
          ELSE /\ config' = cfg.val
               /\ idx' = 1
               /\ pc' = "loop"
               /\ UNCHANGED result
    /\ UNCHANGED <<files, toml_config, corpus, data_path, logs, gv, constructions,
                   boundaries, replaced, counter, projVars, hashseed, treeVars>>

\* vector, doc_features = feat(doc)
CallFeaturizer ==
    /\ pc = "loop"
    /\ idx <= Len(config)
    /\ LET r == apply_featurizer(config[idx], doc, files)
       IN IF r.err # "none"
          THEN /\ ret' = [feat |-> config[idx], err |-> r.err,
                          vector |-> <<>>, doc_features |-> None]
               /\ result' = Raised(r.err)
               /\ pc' = "raised"
          ELSE /\ ret' = [feat |-> config[idx], err |-> "none",
                          vector |-> r.val.vector, doc_features |-> r.val.doc_features]
               /\ pc' = "check"
               /\ UNCHANGED result
    /\ UNCHANGED <<files, toml_config, corpus, data_path, logs, text, embedding, gv,
                   config, idx, vectors, constructions, calls, previous, projVars, hashseed, treeVars, countVars>>

\* the assert, vectors.append(vector) and the logging of one iteration
CheckAndAppend ==
    /\ pc = "check"
    /\ LET a == assert_not_nan(ret.vector)
       IN IF a.err # "none"
          THEN /\ result' = Raised(a.err)
               /\ pc' = "raised"
               /\ UNCHANGED <<vectors, idx, logs>>
          ELSE /\ vectors' = Append(vectors, [feat |-> ret.feat, vector |-> ret.vector])
               /\ logs' = IF gv.logging
                          THEN feature_logger(logs, ret.feat,
                                              [doc_features |-> ret.doc_features,
                                               vector |-> ret.vector])
                          ELSE logs
               /\ idx' = idx + 1
               /\ pc' = "loop"
               /\ UNCHANGED result
    /\ UNCHANGED <<files, toml_config, corpus, data_path, text, embedding, gv,
                   config, ret, constructions, calls, previous, projVars, hashseed, treeVars, countVars>>

\* return np.concatenate(vectors)
Concatenate ==
    /\ pc = "loop"
    /\ idx > Len(config)
    /\ result' = np_concatenate([i \in 1..Len(vectors) |-> vectors[i].vector])
    /\ pc' = IF Len(vectors) = 0 THEN "raised" ELSE "returned"
    /\ UNCHANGED <<files, toml_config, corpus, data_path, logs, text, embedding, gv,
                   config, idx, ret, vectors, constructions, calls, previous, projVars, hashseed, treeVars, countVars>>

Next ==
    \/ \E path \in DataPaths, logging \in BOOLEAN, docs \in Corpora :
          Construct(path, logging, docs)
    \/ \E t \in Texts, vec \in Embeddings : VectorizeBegin(t, vec)
    \/ CallFeaturizer
    \/ CheckAndAppend
    \/ Concatenate

Spec == Init /\ [][Next]_vars

-----------------------------------------------------------------------------
(* Specification SpecLifecycle: the vocabulary artifacts over several      *)
(* constructions and vectorize calls                                       *)

\* every combination of which artifacts exist
AllFileSystems == {[q \in ps |-> LearnedVocab] : ps \in SUBSET VocabPaths}

LifecycleConfigs ==
    {ConfigTable(featurizers, e) :
        e \in {{}, {"doc_vector"}, {"pos_bigrams"}, {"doc_vector", "mixed_bigrams"}}}

InitLifecycle ==
    /\ pc = "new"
    /\ hashseed \in HashSeeds
    /\ files \in AllFileSystems
    /\ toml_config \in LifecycleConfigs
    /\ corpus = None
    /\ logs = <<>>
    /\ data_path = None /\ text = None /\ embedding = None /\ gv = None
    /\ config = None /\ idx = 0 /\ ret = NoCall /\ vectors = <<>> /\ result = None
    /\ constructions = 0 /\ calls = 0 /\ previous = NoResult
    /\ doc = None /\ boundaries = None /\ replaced = None /\ counter = None
    /\ IdleProject
    /\ IdleTree

LifecycleTexts == {<<"I", "run", ".", "U+1F602">>}
LifecycleEmbeddings == {<<Fin(1), Fin(0)>>, <<NaN, Fin(0)>>}

NextLifecycle ==
    \/ \E path \in DataPaths, logging \in BOOLEAN, docs \in Corpora :
          Construct(path, logging, docs)
    \/ \E path \in DataPaths, logging \in BOOLEAN, docs \in Corpora :
          ConstructAgain(path, logging, docs)
    \/ \E t \in LifecycleTexts, vec \in LifecycleEmbeddings : VectorizeBegin(t, vec)
    \/ CallFeaturizer
    \/ CheckAndAppend
    \/ Concatenate

SpecLifecycle == InitLifecycle /\ [][NextLifecycle]_vars

-----------------------------------------------------------------------------
(* Properties of Spec *)

VectorizeFinished == pc \in {"returned", "raised"}
InVectorize == pc \in {"loop", "check", "returned", "raised"}
HasNaN(v) == \E i \in 1..Len(v) : v[i].f = "nan"
Layout(vs) == [i \in 1..Len(vs) |-> vs[i].feat]

\* the vocabulary of each featurizer whose vocabulary is a literal
StaticVocabulary(name) ==
    CASE name = "pos_unigrams" -> tags
      [] name = "func_words" -> function_words
      [] name = "punc" -> punc_marks
      [] name = "letters" -> letters_vocab
      [] name = "common_emojis" -> emoji_vocab
      [] name = "dep_labels" -> labels
StaticFeaturizers ==
    {"pos_unigrams", "func_words", "punc", "letters", "common_emojis", "dep_labels"}

\* C2: whatever the document, a count-based featurizer with vocabulary V
\* returns a sub-vector of exactly len(V) entries.
SubVectorHasVocabularyLength ==
    ret.feat \in StaticFeaturizers =>
        /\ ret.err = "none"
        /\ Len(ret.vector) = Len(StaticVocabulary(ret.feat))

\* how many characters of the tokens of d are the character c
CharacterCount(d, c) ==
    Cardinality({p \in (1..Len(d.tokens)) \X (1..5) :
                    /\ p[2] <= Len(Characters(d.tokens[p[1]]))
                    /\ Characters(d.tokens[p[1]])[p[2]] = c})

\* C6: the punctuation counter returns the multiset of the characters of all
\* tokens that are punctuation marks, and its projection lists their counts in
\* vocabulary order (tokens Hi / , / world / ! / ! give {,:1, !:2}).
PunctuationCountedPerCharacter ==
    ret.feat = "punc" =>
        /\ ret.err = "none"
        /\ Len(ret.vector) = Len(punc_marks)
        /\ \A i \in 1..Len(punc_marks) :
              /\ ret.vector[i] = Fin(CharacterCount(doc, punc_marks[i]))
              /\ MultisetCount(ret.doc_features, punc_marks[i])
                    = CharacterCount(doc, punc_marks[i])

\* the registered counters config.toml sets to 1, in the order it lists them
EnabledInConfigOrder(toml) ==
    DictKeys(SelectSeq(toml, LAMBDA e : e.n = 1 /\ e.k \in Range(featurizers)))
ConfigComplete(toml) ==
    /\ \A i \in 1..Len(featurizers) : DictHas(toml, featurizers[i])
    /\ \A i \in 1..Len(toml) : toml[i].k \in Range(featurizers)

\* C7: with every registered counter listed in the configuration, at least
\* one enabled and a finite embedding, vectorize returns the concatenation of
\* the enabled counters' sub-vectors in the order the configuration declares.
ConcatenationInConfigurationOrder ==
    ( /\ VectorizeFinished
      /\ ConfigComplete(toml_config)
      /\ EnabledInConfigOrder(toml_config) # <<>>
      /\ \A i \in 1..Len(embedding) : embedding[i].f = "fin" ) =>
        /\ result.err = "none"
        /\ Layout(vectors) = EnabledInConfigOrder(toml_config)
        /\ result.val = Flatten([i \in 1..Len(vectors) |-> vectors[i].vector])

HasUnknownName(toml) == \E i \in 1..Len(toml) : toml[i].k \notin Range(featurizers)
MissesRegisteredName(toml) == \E i \in 1..Len(featurizers) : ~ DictHas(toml, featurizers[i])

-----------------------------------------------------------------------------
(* Repeated calls on one instance *)

\* C11: a later vectorize call of an instance, made with the text of the
\* first one under the same config.toml and the same vocabulary files,
\* finishes as the call before it did: it returns the same vector, or raises
\* the same exception.
SecondCallReturnsSameVector ==
    (calls >= 2 /\ VectorizeFinished) =>
        /\ result.err = previous.err
        /\ result.err = "none" => result.val = previous.val

\* a second call has returned a vector, the first one having written its log
SecondCallWitness ==
    /\ calls = 2 /\ pc = "returned"
    /\ previous.err = "none"
    /\ gv.logging /\ Len(logs) > 0
    /\ Len(result.val) > 0

-----------------------------------------------------------------------------
(* Vocabulary mining (_generate_vocab) *)

LearnedFeatures == {"pos_bigrams", "mixed_bigrams"}

\* the multiset of feature f in each text of docs, in input order
PerDocumentCounts(f, docs) ==
    [i \in 1..Len(docs) |->
        IF f = "pos_bigrams"
        THEN count_document_pos_bigrams(make_document(docs[i], <<>>))
        ELSE count_document_mixed_bigrams(make_document(docs[i], <<>>))]

\* the k most frequent units of the summed multisets, equal frequencies in
\* first-encountered order
SelectedUnits(f, docs) ==
    DictKeys(most_common(CounterSum(PerDocumentCounts(f, docs), 1, <<>>), MostCommonK))

\* a construction step, and the artifact of feature f it looks for
IsConstruction == constructions' = constructions + 1
ArtifactOf(f) == out_path(dataset_of(data_path'), f)

\* C12: a construction that finds no artifact for a learned feature mines it:
\* afterwards the artifact holds the k (= 50) most frequent units of the sum
\* of the feature's per-document multisets over the corpus.
MiningSelectsMostFrequent ==
    [][IsConstruction =>
          \A f \in LearnedFeatures :
              ArtifactOf(f) \notin DOMAIN files =>
                  /\ ArtifactOf(f) \in DOMAIN files'
                  /\ files'[ArtifactOf(f)] = Range(SelectedUnits(f, corpus'))]_vars

\* C18: whichever artifacts exist, the counters accumulated for a feature
\* that a construction mines are the feature's per-document multisets, one
\* per corpus document.
EachDocumentCountedOnce ==
    [][IsConstruction =>
          \A f \in LearnedFeatures :
              ArtifactOf(f) \notin DOMAIN files =>
                  /\ gv'.err = "none"
                  /\ gv'.counters[f] = PerDocumentCounts(f, corpus')]_vars

-----------------------------------------------------------------------------
(* Vocabulary order across processes *)

\* C13: the feature at each index of a projection onto a vocabulary held as
\* a set is the same in every process: with any other hash seed, get_counts
\* returns the same keys in the same order.
VocabularyOrderIsProcessIndependent ==
    (pc = "returned_set" /\ count_dict.err = "none") =>
        \A seed \in HashSeeds :
            DictKeys(get_counts(set_iter(vocab, seed), doc_features).val)
                = DictKeys(count_dict.val)

-----------------------------------------------------------------------------
(* The artifacts over a run *)

\* C14: an artifact that exists is never written again: every step, be it a
\* construction on any corpus or a step of a vectorize call, leaves it in
\* place with its content, and only a construction creates artifacts.
ArtifactNeverOverwritten ==
    [][/\ \A p \in DOMAIN files : p \in DOMAIN files' /\ files'[p] = files[p]
       /\ constructions' = constructions => files' = files]_vars

\* a second construction, on a corpus with a text and for a dataset whose
\* artifact existed, has been followed by a vectorize call; an earlier
\* construction had mined an (empty) artifact
ArtifactKeptWitness ==
    /\ constructions = 2 /\ pc = "returned"
    /\ Len(corpus) > 0
    /\ files[out_path(dataset_of(data_path), "pos_bigrams")] = LearnedVocab
    /\ \E q \in DOMAIN files : files[q] = {}

-----------------------------------------------------------------------------
(* Learned vocabularies at vectorize time *)

\* C15: the POS-bigram featurizer looks its vocabulary up under the dataset
\* the vectorizer was constructed for: its call fails with the not-found
\* condition exactly when that dataset's artifact is absent.
LearnedVocabularyKeyedByDataset ==
    (pc \in {"check", "raised"} /\ ret.feat = "pos_bigrams") =>
        (ret.err = "FileNotFoundError"
            <=> out_path(dataset_of(data_path), "pos_bigrams") \notin DOMAIN files)

-----------------------------------------------------------------------------
(* Logging *)

\* vectorize with the logging branch left out
RECURSIVE vectorize_loop(_, _, _, _, _)
vectorize_loop(cfg, i, document, fs, vs) ==
    IF i > Len(cfg) THEN np_concatenate(vs)
    ELSE LET r == apply_featurizer(cfg[i], document, fs)
         IN IF r.err # "none" THEN Raised(r.err)
            ELSE LET a == assert_not_nan(r.val.vector)
                 IN IF a.err # "none" THEN Raised(a.err)
                    ELSE vectorize_loop(cfg, i + 1, document, fs,
                                        Append(vs, r.val.vector))

vectorize_without_logging(t, vec, toml, fs) ==
    LET cfg == config_loop(toml, 1, <<>>)
    IN IF cfg.err # "none" THEN Raised(cfg.err)
       ELSE vectorize_loop(cfg.val, 1, make_document(t, vec), fs, <<>>)

SameOutcome(a, b) == a.err = b.err /\ (a.err = "none" => a.val = b.val)

\* old is a prefix of new
IsPrefix(old, new) == Len(old) <= Len(new) /\ SubSeq(new, 1, Len(old)) = old

\* C16: a vectorize call ends, with logging enabled or disabled, as the call
\* without the logging branch does (same vector, or same exception); a step
\* changes the logs only with logging enabled and only by appending to
\* per-feature streams, one record per sub-vector appended.
LoggingDoesNotAffectResult ==
    /\ [](VectorizeFinished =>
             SameOutcome(result,
                         vectorize_without_logging(text, embedding, toml_config, files)))
    /\ [][/\ logs' # logs =>
                /\ gv.logging
                /\ \A i \in 1..Len(logs) :
                       /\ DictHas(logs', logs[i].k)
                       /\ IsPrefix(logs[i].n, DictGet(logs', logs[i].k))
          /\ (pc = "check" /\ pc' = "loop" /\ gv.logging) =>
                Len(DictGet(logs', ret.feat))
                    = 1 + (IF DictHas(logs, ret.feat)
                           THEN Len(DictGet(logs, ret.feat)) ELSE 0)]_vars

\* with logging enabled, a second call has appended to the stream the first
\* one wrote, and returned
LoggedTwiceWitness ==
    /\ pc = "returned" /\ gv.logging /\ calls = 2
    /\ DictHas(logs, "doc_vector")
    /\ Len(DictGet(logs, "doc_vector")) = 2

-----------------------------------------------------------------------------
(* Emoji *)

\* the curated emoji of a text, counted
CuratedEmojiCounts(t) ==
    Counter(SelectSeq(findall_list(t), LAMBDA e : e \in Range(emoji_vocab)))

\* C17: the parser gets the text without its emoji, the Document keeps the
\* text as given, and the common-emoji featurizer returns the counts of the
\* curated emoji found in that raw text.
EmojiCountedFromRawText ==
    /\ InVectorize =>
          /\ doc.raw_text = text
          /\ doc.doc.text = demojify_text(text)
    /\ (pc \in {"check", "raised"} /\ ret.feat = "common_emojis") =>
          /\ ret.err = "none"
          /\ ret.doc_features = CuratedEmojiCounts(doc.raw_text)

-----------------------------------------------------------------------------
(* linearlize_tree (treegex/treegex.py:20-48)                              *)
(*                                                                         *)
(* A sentence of n tokens is given by its dependency heads: tree[i] is the *)
(* position of the head of token i, 0 for the root.  The string returned   *)
(* is a sequence of symbols: "(", ")" and, for the                         *)
(* "text-lemma-tag-dep" of token i, its label.                             *)

TokenLabel(i) == <<"t1", "t2", "t3", "t4", "t5", "t6">>[i]

\* the ancestors of token i within k steps
RECURSIVE Ancestors(_, _, _)
Ancestors(heads, i, k) ==
    IF k = 0 \/ heads[i] = 0 THEN {}
    ELSE {heads[i]} \cup Ancestors(heads, heads[i], k - 1)

\* the dependency parses of a sentence of n tokens: one root, every other
\* token below it
Trees(n) ==
    {heads \in [1..n -> 0..n] :
        /\ Cardinality({i \in 1..n : heads[i] = 0}) = 1
        /\ \A i \in 1..n : heads[i] # 0 =>
               \E r \in Ancestors(heads, i, n) : heads[r] = 0}

\* sentence.root
root(heads) == CHOOSE i \in DOMAIN heads : heads[i] = 0

\* list(token.children): the dependents of the token, in sentence order
RECURSIVE ChildrenFrom(_, _, _)
ChildrenFrom(heads, token, j) ==
    IF j > Len(heads) THEN <<>>
    ELSE (IF heads[j] = token THEN <<j>> ELSE <<>>) \o ChildrenFrom(heads, token, j + 1)
children(heads, token) == ChildrenFrom(heads, token, 1)

\* get_NT_count: the number of tokens that have children
get_NT_count(heads) ==
    Cardinality({i \in DOMAIN heads : Len(children(heads, i)) > 0})

\* ending_parenthesis(n): ")" * n
ending_parenthesis(n) == [i \in 1..n |-> ")"]

InitTree ==
    /\ pc = "call"
    /\ hashseed \in HashSeeds
    /\ tree \in UNION {Trees(n) : n \in 1..MaxNodes}
    /\ stack = None /\ linear = None
    /\ IdleProject
    /\ IdleCount
    /\ IdleVectorizer

\* stack = [sentence.root]; result = ""
ParseBegin ==
    /\ pc = "call"
    /\ stack' = <<root(tree)>>
    /\ linear' = <<>>
    /\ pc' = "while"
    /\ UNCHANGED <<tree, hashseed, projVars, countVars, vecVars>>

\* one iteration of `while stack`
ParseStep ==
    /\ pc = "while"
    /\ Len(stack) > 0
    /\ LET token == stack[Len(stack)]
           kids == children(tree, token)
       IN /\ stack' = SubSeq(stack, 1, Len(stack) - 1) \o Reverse(kids)
          /\ linear' = linear \o <<"(", TokenLabel(token)>>
                               \o (IF Len(kids) = 0 THEN <<")">> ELSE <<>>)
    /\ UNCHANGED <<pc, tree, hashseed, projVars, countVars, vecVars>>

\* the loop has ended: return f"{parse}{ending_parenthesis(nt_count)}"
ParseReturn ==
    /\ pc = "while"
    /\ Len(stack) = 0
    /\ linear' = linear \o ending_parenthesis(get_NT_count(tree))
    /\ pc' = "returned"
    /\ UNCHANGED <<tree, stack, hashseed, projVars, countVars, vecVars>>

NextTree == ParseBegin \/ ParseStep \/ ParseReturn

SpecTree == InitTree /\ [][NextTree]_vars

\* the nesting depth after the first k symbols of s
RECURSIVE Depth(_, _)
Depth(s, k) ==
    IF k = 0 THEN 0
    ELSE Depth(s, k - 1) + (IF s[k] = "(" THEN 1 ELSE IF s[k] = ")" THEN -1 ELSE 0)

\* the positions at which token i opens a group in s
OpenPositions(s, i) ==
    {k \in 1..(Len(s) - 1) : s[k] = "(" /\ s[k + 1] = TokenLabel(i)}

\* the position of the parenthesis closing the group opened at position k
ClosePosition(s, k) ==
    CHOOSE q \in k..Len(s) :
        /\ Depth(s, q) = Depth(s, k - 1)
        /\ \A m \in k..(q - 1) : Depth(s, m) > Depth(s, k - 1)

\* the tokens whose group lies inside the group token i opens
Enclosed(s, heads, i) ==
    LET k == CHOOSE open \in OpenPositions(s, i) : TRUE
    IN {j \in DOMAIN heads \ {i} :
           \E m \in OpenPositions(s, j) : k < m /\ m < ClosePosition(s, k)}

Descendants(heads, i) == {j \in DOMAIN heads : i \in Ancestors(heads, j, Len(heads))}

\* C19: in the string returned every token opens exactly one group, the
\* parentheses are balanced, and the group a token opens encloses exactly
\* the groups of the token's descendants.
LinearizationPreservesDependencies ==
    pc = "returned" =>
        /\ \A i \in DOMAIN tree : Cardinality(OpenPositions(linear, i)) = 1
        /\ Depth(linear, Len(linear)) = 0
        /\ \A k \in 1..Len(linear) : Depth(linear, k) >= 0
        /\ \A i \in DOMAIN tree : Enclosed(linear, tree, i) = Descendants(tree, i)

=============================================================================
